---- MODULE Spec2Model ----
(***************************************************************************)
(* Activity-Relay: the inbox routing engine (api/handle.go).               *)
(*                                                                         *)
(* State: the membership registry (RelayState.Subscribers / Followers),    *)
(* the delivery queue, the HTTP handler goroutines (one per request in     *)
(* flight, each with its position in handleInbox / handleAdminUnfollow),   *)
(* and the record of the request that completed last.                      *)
(***************************************************************************)
EXTENDS Integers, FiniteSets, Sequences, Bags, TLC

\* ---------------------------------------------------------------- bounds
NumDomains == 2
NumHandlers == 2
\* requests the clients send in all: any traffic, handshakes only, fan-out only
MaxRequests == 2
MaxHandshakes == 3
MaxFanout == 3
\* membership operations (follow, unfollow, administrative unfollow) in all
MaxMembershipOps == 3
\* handshake requests of all four kinds and administrative unfollows in all
MaxRegistryOps == 3
\* requests to the inbox in all, of any method, body and timestamp
MaxInbox == 2
\* requests whose jobs the dispatcher delivers, and its concurrent senders
MaxDeliveryRequests == 2
PoolSize == 1
\* requests to the inbox while the clock runs, and half minutes the clock
\* runs before and after a quiet spell
MaxCounted == 2
MaxTicks == 2
\* concurrent calls of RecordDelay and the largest delay recorded, in seconds
NumRecorders == 3
MaxDelay == 2

Domain == 1..NumDomains
Handler == 1..NumHandlers

\* ------------------------------------------------------------ vocabulary
PublicURI == <<"public", 0>>
RelayActorID == <<"relay", 0>>
OtherURI == <<"other", 0>>
InboxURL(d) == <<"inbox", d>>

Dialects == {"PublicBroadcast", "RelayDirected", "Unaddressed"}

Types == {"Follow", "Undo", "Accept", "Reject", "Announce",
          "Create", "Update", "Delete", "Move", "Like"}

\* object shapes of an activity, by type
ObjectsOf(type) ==
    CASE type = "Follow" -> {"public", "relay"}
      [] type \in {"Undo", "Accept", "Reject"} -> {"malformed", "Follow", "Other"}
      [] type = "Announce" -> {"uri", "embedded"}
      [] OTHER -> {"embedded"}

\* recipient lists (to, cc) an inbound activity carries: one or two for each
\* guard of the addressing switch, through to and through cc
AddrChoices ==
    {<<{}, {}>>, <<{PublicURI, RelayActorID}, {}>>, <<{OtherURI}, {PublicURI}>>,
     <<{RelayActorID}, {}>>}
        \cup {<<{OtherURI}, {InboxURL(d)}>> : d \in Domain}

\* what clients may send: activity types, and the other request shapes
OtherRequests == {"GET", "undecodable", "AdminBad", "AdminUnfollow"}
AllTraffic == Types \cup OtherRequests

\* the published timestamp of an activity (its own or its object's): missing,
\* in none of the accepted formats, outside 0..86400 seconds before the
\* reception, or usable; clients that send "stamped" activities use them all
PublishedChoices == {"none", "unparsable", "skewed", "ok"}
PublishedOf(sent) == IF "stamped" \in sent THEN PublishedChoices ELSE {"none"}

VARIABLES
    Subscribers,     \* RelayState.Subscribers: domain -> "absent" | "pending" | "active"
    Followers,       \* RelayState.Followers:   domain -> "absent" | "pending" | "active"
    BlockedDomains,  \* administratively blocked domains (configuration)
    manuallyAccept,  \* manual approval of follow requests (configuration)
    queue,           \* delivery jobs submitted to the dispatcher (a bag)
    handlers,        \* handler goroutine -> the request it is processing
    last,            \* the request that completed last, with its response
    nreq,            \* requests accepted so far
    traffic,         \* environment: the requests clients send
    budget,          \* environment: how many requests clients send in all
    inboxCount,      \* relay:stats:inbox:total
    phase,           \* per domain: which handshake request was processed last
    cls,             \* the addressing switch on its own: recipient lists, bodies entered
    delayRecords,    \* delay records written by delaymetrics.RecordDelay
    history,         \* the membership operations completed, in order of completion
    remote,          \* environment: how each domain's inbox answers a delivery
    dispatcher,      \* the delivery dispatcher: jobs taken, in retry, delivered, dropped
    clock,           \* environment: the time, in ticks
    inboxBuckets,    \* relay:stats:inbox:<minute>: bucket -> its count and expiry time
    posts,           \* POST requests the inbox has handled
    hourRecord,      \* fdma:hour:<hour>:<host>, the hash of one host and hour
    recorders        \* the calls of delaymetrics.RecordDelay in progress or done

vars == <<Subscribers, Followers, BlockedDomains, manuallyAccept, queue,
          handlers, last, nreq, traffic, budget, inboxCount, phase, cls,
          delayRecords, history, remote, dispatcher,
          clock, inboxBuckets, posts, hourRecord, recorders>>

\* configuration and environment, which no request handler changes
config == <<BlockedDomains, manuallyAccept, traffic, budget, cls, remote, clock>>

\* the delay metrics store, which the inbox handlers reach only through
\* recordDelayMetrics
metrics == <<hourRecord, recorders>>

\* ------------------------------------------------- addressing classifier
contains(list, x) == x \in list

\* a recipient list names the inbox of a current Follower
isToMyFollower(list) ==
    \E d \in Domain : Followers[d] = "active" /\ contains(list, InboxURL(d))

\* (variant: the public audience is looked for in to only)
SwitchCasesNoPublicCc(to, cc) ==
    << <<contains(to, PublicURI), "PublicBroadcast">>,
       <<contains(to, RelayActorID) \/ contains(cc, RelayActorID), "RelayDirected">>,
       <<isToMyFollower(to) \/ isToMyFollower(cc), "RelayDirected">>,
       <<TRUE, "Unaddressed">> >>

\* (variant: the relay-ID case placed before the public-audience case)
SwitchCasesRelayFirst(to, cc) ==
    << <<contains(to, RelayActorID) \/ contains(cc, RelayActorID), "RelayDirected">>,
       <<contains(to, PublicURI) \/ contains(cc, PublicURI), "PublicBroadcast">>,
       <<isToMyFollower(to) \/ isToMyFollower(cc), "RelayDirected">>,
       <<TRUE, "Unaddressed">> >>

\* the guards of the outer switch of handleInbox, in source order, each with
\* the dialect of the body it selects (case 2 falls through into case 3)
SwitchCases(to, cc) ==
    << <<contains(to, PublicURI) \/ contains(cc, PublicURI), "PublicBroadcast">>,
       <<contains(to, RelayActorID) \/ contains(cc, RelayActorID), "RelayDirected">>,
       <<isToMyFollower(to) \/ isToMyFollower(cc), "RelayDirected">>,
       <<TRUE, "Unaddressed">> >>

\* Go's tagless switch: the bodies entered are those of the first true guard
Taken(cases) ==
    {i \in DOMAIN cases : cases[i][1] /\ \A j \in 1..(i-1) : ~cases[j][1]}

Selected(to, cc) == {SwitchCases(to, cc)[i][2] : i \in Taken(SwitchCases(to, cc))}

\* the inner activity of an Undo / Accept / Reject
UnwrapInnerActivity(obj) ==
    IF obj = "malformed" THEN [err |-> TRUE, type |-> "none"]
    ELSE [err |-> FALSE, type |-> obj]

\* (variant: only Create is relayed)
RoutePublicBroadcastCreateOnly(type) ==
    IF type \in {"Create"} THEN "relay" ELSE "ack"

\* the inner switch of the PublicBroadcast body (Mastodon traditional style)
RoutePublicBroadcast(type) ==
    IF type \in {"Create", "Update", "Delete", "Move"} THEN "relay" ELSE "ack"

\* (variant: an Undo is unfollowed without looking at the unwrap error)
RouteRelayDirectedNoUnwrapCheck(type, obj) ==
    CASE type = "Follow" -> "follow"
      [] type = "Undo" ->
            IF UnwrapInnerActivity(obj).type \in {"Follow", "none"} THEN "unfollow"
            ELSE "ack"
      [] type = "Accept" ->
            IF UnwrapInnerActivity(obj).err THEN "ack"
            ELSE IF UnwrapInnerActivity(obj).type = "Follow" THEN "finalize"
            ELSE "ack"
      [] type = "Reject" ->
            IF UnwrapInnerActivity(obj).err THEN "ack"
            ELSE IF UnwrapInnerActivity(obj).type = "Follow" THEN "finalize"
            ELSE "ack"
      [] type = "Announce" -> "announce"
      [] OTHER -> "ack"

\* the inner switch of the RelayDirected body (LitePub relay style)
RouteRelayDirected(type, obj) ==
    CASE type = "Follow" -> "follow"
      [] type = "Undo" ->
            IF UnwrapInnerActivity(obj).err THEN "ack"
            ELSE IF UnwrapInnerActivity(obj).type = "Follow" THEN "unfollow"
            ELSE "ack"
      [] type = "Accept" ->
            IF UnwrapInnerActivity(obj).err THEN "ack"
            ELSE IF UnwrapInnerActivity(obj).type = "Follow" THEN "finalize"
            ELSE "ack"
      [] type = "Reject" ->
            IF UnwrapInnerActivity(obj).err THEN "ack"
            ELSE IF UnwrapInnerActivity(obj).type = "Follow" THEN "finalize"
            ELSE "ack"
      [] type = "Announce" -> "announce"
      [] OTHER -> "ack"

\* (variant: the default body is a copy of the RelayDirected body)
RouteUnaddressedAsRelayDirected(type, obj) == RouteRelayDirected(type, obj)

\* (variant: the default body also finalizes on Accept and Reject)
RouteUnaddressedWithFinalize(type, obj) ==
    CASE type = "Follow" -> "follow"
      [] type = "Undo" ->
            IF UnwrapInnerActivity(obj).err THEN "ack"
            ELSE IF UnwrapInnerActivity(obj).type = "Follow" THEN "unfollow"
            ELSE "ack"
      [] type \in {"Accept", "Reject"} ->
            IF UnwrapInnerActivity(obj).err THEN "ack"
            ELSE IF UnwrapInnerActivity(obj).type = "Follow" THEN "finalize"
            ELSE "ack"
      [] OTHER -> "ack"

\* (variant: the default body without its Undo case)
RouteUnaddressedNoUndo(type, obj) ==
    CASE type = "Follow" -> "follow"
      [] OTHER -> "ack"

\* the inner switch of the default body (Follow, Unfollow only)
RouteUnaddressed(type, obj) ==
    CASE type = "Follow" -> "follow"
      [] type = "Undo" ->
            IF UnwrapInnerActivity(obj).err THEN "ack"
            ELSE IF UnwrapInnerActivity(obj).type = "Follow" THEN "unfollow"
            ELSE "ack"
      [] OTHER -> "ack"

\* which operation handleInbox gives an activity to ("ack": none, 202 only)
Route(dialect, type, obj) ==
    CASE dialect = "PublicBroadcast" -> RoutePublicBroadcast(type)
      [] dialect = "RelayDirected" -> RouteRelayDirected(type, obj)
      [] dialect = "Unaddressed" -> RouteUnaddressed(type, obj)
      [] OTHER -> "none"

NoCls == [probed |-> FALSE, to |-> {}, cc |-> {}, selected |-> {}]

\* ------------------------------------------------------- request records
NoAct == [type |-> "none", actor |-> 0, obj |-> "none"]
NoOrig == <<"none", "none", 0, "none">>

Idle ==
    [kind |-> "idle", pc |-> "idle", method |-> "none", decoded |-> FALSE,
     act |-> NoAct, member |-> "unchecked",
     seenSubs |-> [d \in Domain |-> "absent"], seenFols |-> [d \in Domain |-> "absent"],
     dialect |-> "none", op |-> "none", toPublic |-> FALSE, toRelay |-> FALSE,
     published |-> "none", writes |-> 0,
     jobs |-> EmptyBag, muts |-> {}, fetches |-> 0, fetched |-> FALSE, orig |-> NoOrig,
     status |-> 0, body |-> "none"]

\* the serialized activity as received
Body(act) == <<"body", act.type, act.actor, act.obj>>
\* the activity an Announce refers to, as resolved from its origin
Original(act) == <<"orig", act.type, act.actor, act.obj>>
\* GenerateReply: an Accept / Reject of the activity, for its sender
Reply(replyType, act) == <<replyType, act.type, act.actor, act.obj>>

Job(dest, payload) == [dest |-> dest, payload |-> payload]

\* which membership records differ between two registry states
Changed(S1, F1, S2, F2) ==
    {<<"Subscribers", d>> : d \in {e \in Domain : S1[e] # S2[e]}}
        \cup {<<"Followers", d>> : d \in {e \in Domain : F1[e] # F2[e]}}

\* ------------------------------------------------------ membership store
IsMember(coll, d) == coll[d] # "absent"
ActiveOf(coll) == {d \in Domain : coll[d] = "active"}

isActorSubscribersOrFollowers(d) ==
    Subscribers[d] = "active" \/ Followers[d] = "active"

\* follow admission: the sender's domain is not administratively blocked
isFollowAcceptable(act) == act.actor \notin BlockedDomains

\* Follow: create (or mark pending) the record of the sender's domain and
\* reply Accept when auto-approved; no mutation when admission fails
executeFollowing(act) ==
    LET d == act.actor
        st == IF manuallyAccept THEN "pending" ELSE "active"
        reply == IF manuallyAccept THEN EmptyBag
                 ELSE SetToBag({Job(InboxURL(d), Reply("Accept", act))})
    IN IF ~isFollowAcceptable(act)
       THEN [err |-> TRUE, subs |-> Subscribers, fols |-> Followers, jobs |-> EmptyBag]
       ELSE IF act.obj = "public"
       THEN [err |-> FALSE, subs |-> [Subscribers EXCEPT ![d] = st],
             fols |-> Followers, jobs |-> reply]
       ELSE [err |-> FALSE, subs |-> Subscribers,
             fols |-> [Followers EXCEPT ![d] = st], jobs |-> reply]

\* Undo(Follow): delete the record of the sender's domain; fails when the
\* sender's domain has no record
executeUnfollowing(act) ==
    LET d == act.actor
    IN IF ~IsMember(Subscribers, d) /\ ~IsMember(Followers, d)
       THEN [err |-> TRUE, subs |-> Subscribers, fols |-> Followers]
       ELSE [err |-> FALSE, subs |-> [Subscribers EXCEPT ![d] = "absent"],
             fols |-> [Followers EXCEPT ![d] = "absent"]]

\* the Reject reply to the sender of a refused activity
executeRejectRequest(act) ==
    SetToBag({Job(InboxURL(act.actor), Reply("Reject", act))})

\* Accept(Follow): pending -> active; Reject(Follow): remove unconditionally
finalizeMutuallyFollow(act) ==
    LET d == act.actor
    IN IF act.type = "Accept"
       THEN [Followers EXCEPT ![d] = IF @ = "pending" THEN "active" ELSE @]
       ELSE [Followers EXCEPT ![d] = "absent"]

\* one job per active Subscriber, carrying the received body unmodified
executeRelayActivity(act) ==
    [err |-> FALSE,
     jobs |-> SetToBag({Job(InboxURL(d), Body(act)) : d \in ActiveOf(Subscribers)})]

\* one job per active Subscriber and per active Follower, carrying the
\* resolved original activity
executeAnnounceActivity(orig) ==
    SetToBag({Job(InboxURL(d), orig) : d \in ActiveOf(Subscribers)})
        (+) SetToBag({Job(InboxURL(d), orig) : d \in ActiveOf(Followers)})

\* --------------------------------------------------------------- actions
\* which handshake request of a domain was processed last: a Follow, or an
\* Undo(Follow) after a Follow (RelayDirected and Unaddressed dialects)
PhaseAfter(rec) ==
    IF rec.kind = "inbox" /\ rec.decoded
          /\ rec.dialect \in {"RelayDirected", "Unaddressed"}
    THEN IF rec.act.type = "Follow"
         THEN [phase EXCEPT ![rec.act.actor] = "followed"]
         ELSE IF rec.act.type = "Undo" /\ rec.act.obj = "Follow"
                    /\ phase[rec.act.actor] = "followed"
         THEN [phase EXCEPT ![rec.act.actor] = "undone"]
         ELSE phase
    ELSE phase

\* the requests that read and write the registry of one domain: a routed
\* Follow or Undo(Follow), an administrative unfollow
IsMembershipOp(rec) ==
    \/ rec.kind = "inbox" /\ rec.op \in {"follow", "unfollow"}
    \/ rec.kind = "admin" /\ rec.decoded

\* what a client sees of a completed request, and the jobs it submitted
Outcome(rec) ==
    [kind |-> rec.kind, act |-> rec.act, status |-> rec.status, body |-> rec.body,
     jobs |-> rec.jobs]

\* a request is served by the first free handler
FirstIdle(h) ==
    /\ handlers[h].pc = "idle"
    /\ \A g \in Handler : g < h => handlers[g].pc # "idle"

\* the handler returns: its response is on the wire and the goroutine ends
\* (seenSubs, seenFols: the registry as the handler's last step found it)
Complete(h, rec) ==
    /\ last' = [rec EXCEPT !.pc = "done", !.seenSubs = Subscribers, !.seenFols = Followers]
    /\ handlers' = [handlers EXCEPT ![h] = Idle]
    /\ phase' = PhaseAfter(rec)
    /\ history' = IF history.on /\ IsMembershipOp(rec)
                  THEN [history EXCEPT !.ops = Append(@, Outcome(rec))]
                  ELSE history

Respond(rec, status, body) ==
    [rec EXCEPT !.status = status, !.body = body, !.writes = @ + 1]

\* ------------------------------------------------------- inbox statistics
\* the clock counts half minutes
TicksPerMinute == 2

\* a minute bucket lives 25 hours after its last increment
ExpireAfter == 25 * 60 * TicksPerMinute

\* now.Unix() / 60 * 60: the minute a time lies in
BucketOf(now) == (now \div TicksPerMinute) * TicksPerMinute

\* the key exists at the time now (an expired key is gone)
Live(buckets, k, now) == k \in DOMAIN buckets /\ now < buckets[k].until

\* Incr of the minute key, then Expire: a key that does not exist starts at 0
IncrBucket(buckets, now) ==
    LET k == BucketOf(now)
        n == IF Live(buckets, k, now) THEN buckets[k].n + 1 ELSE 1
    IN  [j \in DOMAIN buckets \cup {k} |->
            IF j = k THEN [n |-> n, until |-> now + ExpireAfter] ELSE buckets[j]]

\* (variant: the total counter is left alone)
IncrementInboxCountBucketOnly ==
    /\ inboxBuckets' = IncrBucket(inboxBuckets, clock)
    /\ inboxCount' = inboxCount

\* IncrementInboxCount: the bucket of the current minute and the total, one each
IncrementInboxCount ==
    /\ inboxBuckets' = IncrBucket(inboxBuckets, clock)
    /\ inboxCount' = inboxCount + 1

\* recordDelayMetrics: how many delay records an activity leaves (one when a
\* timestamp is found, parses and lies within the last 24 hours)
recordDelayMetrics(published) == IF published = "ok" THEN 1 ELSE 0

\* (variant: the request is counted before its method is looked at)
ReceiveBadMethodCounted(h) ==
    /\ "GET" \in traffic
    /\ FirstIdle(h)
    /\ nreq < budget
    /\ nreq' = nreq + 1
    /\ IncrementInboxCount
    /\ Complete(h, Respond([Idle EXCEPT !.kind = "inbox", !.method = "GET"], 405, "none"))
    /\ UNCHANGED <<Subscribers, Followers, config, metrics, dispatcher, queue, posts, delayRecords>>

\* handleInbox, a method other than POST: 405
ReceiveBadMethod(h) ==
    /\ "GET" \in traffic
    /\ FirstIdle(h)
    /\ nreq < budget
    /\ nreq' = nreq + 1
    /\ Complete(h, Respond([Idle EXCEPT !.kind = "inbox", !.method = "GET"], 405, "none"))
    /\ UNCHANGED <<Subscribers, Followers, config, metrics, dispatcher, queue, inboxCount, inboxBuckets, posts, delayRecords>>

\* (variant: the delay of the request is recorded before the decoder's error
\* is looked at)
ReceiveUndecodableRecordsDelay(h) ==
    /\ "undecodable" \in traffic
    /\ FirstIdle(h)
    /\ nreq < budget
    /\ nreq' = nreq + 1
    /\ IncrementInboxCount
    /\ posts' = posts + 1
    /\ delayRecords' = delayRecords + 1
    /\ Complete(h, Respond([Idle EXCEPT !.kind = "inbox", !.method = "POST"], 400, "none"))
    /\ UNCHANGED <<Subscribers, Followers, config, metrics, dispatcher, queue>>

\* handleInbox, POST whose body the decoder refuses: counted, then 400
ReceiveUndecodable(h) ==
    /\ "undecodable" \in traffic
    /\ FirstIdle(h)
    /\ nreq < budget
    /\ nreq' = nreq + 1
    /\ IncrementInboxCount
    /\ posts' = posts + 1
    /\ Complete(h, Respond([Idle EXCEPT !.kind = "inbox", !.method = "POST"], 400, "none"))
    /\ UNCHANGED <<Subscribers, Followers, config, metrics, dispatcher, queue, delayRecords>>

\* handleInbox, POST of a decoded activity: counted, classified by its
\* addressing and routed by its type; an activity no operation takes is
\* acknowledged at once
ReceiveActivity(h) ==
    /\ FirstIdle(h)
    /\ nreq < budget
    /\ nreq' = nreq + 1
    /\ IncrementInboxCount
    /\ posts' = posts + 1
    /\ \E type \in traffic \cap Types, actor \in Domain, addr \in AddrChoices :
         \E obj \in ObjectsOf(type), published \in PublishedOf(traffic) :
           LET to == addr[1]
               cc == addr[2]
               sel == Selected(to, cc)
               dialect == IF Cardinality(sel) = 1 THEN CHOOSE x \in sel : TRUE ELSE "none"
               op == Route(dialect, type, obj)
               rec == [Idle EXCEPT !.kind = "inbox", !.method = "POST", !.decoded = TRUE,
                                   !.act = [type |-> type, actor |-> actor, obj |-> obj],
                                   !.dialect = dialect, !.op = op,
                                   !.toPublic = PublicURI \in (to \cup cc),
                                   !.toRelay = RelayActorID \in (to \cup cc),
                                   !.published = published,
                                   !.pc = op]
           IN /\ delayRecords' = delayRecords + recordDelayMetrics(published)
              /\ IF op = "ack" THEN Complete(h, Respond(rec, 202, "none"))
                 ELSE IF op = "none" THEN Complete(h, rec)
                 ELSE /\ handlers' = [handlers EXCEPT ![h] = rec]
                      /\ UNCHANGED <<last, phase, history>>
    /\ UNCHANGED <<Subscribers, Followers, config, metrics, dispatcher, queue>>

\* (variant: the handler goes on only once the dispatcher has finished every
\* job submitted before)
ExecRelayAwaitsDelivery(h) ==
    /\ handlers[h].pc = "relay"
    /\ BagCardinality(dispatcher.delivered) + BagCardinality(dispatcher.dropped)
           = BagCardinality(queue)
    /\ LET r == executeRelayActivity(handlers[h].act)
           js == IF r.err THEN EmptyBag ELSE r.jobs
           rec == [handlers[h] EXCEPT !.jobs = @ (+) js]
       IN /\ queue' = queue (+) js
          /\ IF r.err THEN Complete(h, Respond(rec, 401, "reason"))
             ELSE Complete(h, Respond(rec, 202, "none"))
    /\ UNCHANGED <<Subscribers, Followers, config, metrics, dispatcher, nreq, inboxCount, inboxBuckets, posts, delayRecords>>

\* PublicBroadcast Create / Update / Delete / Move: executeRelayActivity
ExecRelay(h) ==
    /\ handlers[h].pc = "relay"
    /\ LET r == executeRelayActivity(handlers[h].act)
           js == IF r.err THEN EmptyBag ELSE r.jobs
           rec == [handlers[h] EXCEPT !.jobs = @ (+) js]
       IN /\ queue' = queue (+) js
          /\ IF r.err THEN Complete(h, Respond(rec, 401, "reason"))
             ELSE Complete(h, Respond(rec, 202, "none"))
    /\ UNCHANGED <<Subscribers, Followers, config, metrics, dispatcher, nreq, inboxCount, inboxBuckets, posts, delayRecords>>

\* (variant: a failed admission is not answered with a Reject)
ExecFollowNoReject(h) ==
    /\ handlers[h].pc = "follow"
    /\ LET a == handlers[h].act
           r == executeFollowing(a)
           rec == [handlers[h] EXCEPT
                      !.jobs = @ (+) r.jobs,
                      !.muts = @ \cup Changed(Subscribers, Followers, r.subs, r.fols)]
       IN /\ Subscribers' = r.subs
          /\ Followers' = r.fols
          /\ queue' = queue (+) r.jobs
          /\ Complete(h, Respond(rec, 202, "none"))
    /\ UNCHANGED <<config, metrics, dispatcher, nreq, inboxCount, inboxBuckets, posts, delayRecords>>

\* (variant: a failed admission is answered 401 with the error text)
ExecFollowUnauthorized(h) ==
    /\ handlers[h].pc = "follow"
    /\ LET a == handlers[h].act
           r == executeFollowing(a)
           js == r.jobs (+) (IF r.err THEN executeRejectRequest(a) ELSE EmptyBag)
           rec == [handlers[h] EXCEPT
                      !.jobs = @ (+) js,
                      !.muts = @ \cup Changed(Subscribers, Followers, r.subs, r.fols)]
       IN /\ Subscribers' = r.subs
          /\ Followers' = r.fols
          /\ queue' = queue (+) js
          /\ IF r.err THEN Complete(h, Respond(rec, 401, "reason"))
             ELSE Complete(h, Respond(rec, 202, "none"))
    /\ UNCHANGED <<config, metrics, dispatcher, nreq, inboxCount, inboxBuckets, posts, delayRecords>>

\* Follow: executeFollowing, and executeRejectRequest when it fails; 202
ExecFollow(h) ==
    /\ handlers[h].pc = "follow"
    /\ LET a == handlers[h].act
           r == executeFollowing(a)
           js == r.jobs (+) (IF r.err THEN executeRejectRequest(a) ELSE EmptyBag)
           rec == [handlers[h] EXCEPT
                      !.jobs = @ (+) js,
                      !.muts = @ \cup Changed(Subscribers, Followers, r.subs, r.fols)]
       IN /\ Subscribers' = r.subs
          /\ Followers' = r.fols
          /\ queue' = queue (+) js
          /\ Complete(h, Respond(rec, 202, "none"))
    /\ UNCHANGED <<config, metrics, dispatcher, nreq, inboxCount, inboxBuckets, posts, delayRecords>>

\* (variant: a failed unfollow is acknowledged without a reply)
ExecUnfollowNoReject(h) ==
    /\ handlers[h].pc = "unfollow"
    /\ LET a == handlers[h].act
           r == executeUnfollowing(a)
           rec == [handlers[h] EXCEPT
                      !.muts = @ \cup Changed(Subscribers, Followers, r.subs, r.fols)]
       IN /\ Subscribers' = r.subs
          /\ Followers' = r.fols
          /\ queue' = queue
          /\ Complete(h, Respond(rec, 202, "none"))
    /\ UNCHANGED <<config, metrics, dispatcher, nreq, inboxCount, inboxBuckets, posts, delayRecords>>

\* Undo(Follow): executeUnfollowing, and executeRejectRequest when it fails; 202
ExecUnfollow(h) ==
    /\ handlers[h].pc = "unfollow"
    /\ LET a == handlers[h].act
           r == executeUnfollowing(a)
           js == IF r.err THEN executeRejectRequest(a) ELSE EmptyBag
           rec == [handlers[h] EXCEPT
                      !.jobs = @ (+) js,
                      !.muts = @ \cup Changed(Subscribers, Followers, r.subs, r.fols)]
       IN /\ Subscribers' = r.subs
          /\ Followers' = r.fols
          /\ queue' = queue (+) js
          /\ Complete(h, Respond(rec, 202, "none"))
    /\ UNCHANGED <<config, metrics, dispatcher, nreq, inboxCount, inboxBuckets, posts, delayRecords>>

\* (variant: an Accept(Follow) makes its sender an active Follower whether or
\* not a record was pending)
ExecFinalizeCreates(h) ==
    /\ handlers[h].pc = "finalize"
    /\ LET a == handlers[h].act
           f == IF a.type = "Accept" THEN [Followers EXCEPT ![a.actor] = "active"]
                ELSE finalizeMutuallyFollow(a)
           rec == [handlers[h] EXCEPT
                      !.muts = @ \cup Changed(Subscribers, Followers, Subscribers, f)]
       IN /\ Followers' = f
          /\ Complete(h, Respond(rec, 202, "none"))
    /\ UNCHANGED <<Subscribers, config, metrics, dispatcher, queue, nreq, inboxCount, inboxBuckets, posts, delayRecords>>

\* Accept(Follow) / Reject(Follow), RelayDirected: finalizeMutuallyFollow; 202
ExecFinalize(h) ==
    /\ handlers[h].pc = "finalize"
    /\ LET a == handlers[h].act
           f == finalizeMutuallyFollow(a)
           rec == [handlers[h] EXCEPT
                      !.muts = @ \cup Changed(Subscribers, Followers, Subscribers, f)]
       IN /\ Followers' = f
          /\ Complete(h, Respond(rec, 202, "none"))
    /\ UNCHANGED <<Subscribers, config, metrics, dispatcher, queue, nreq, inboxCount, inboxBuckets, posts, delayRecords>>

\* (variant: the membership check does not stop the handler)
AnnounceAuthNoCheck(h) ==
    /\ handlers[h].pc = "announce"
    /\ LET isMember == isActorSubscribersOrFollowers(handlers[h].act.actor)
           rec == [handlers[h] EXCEPT !.member = IF isMember THEN "yes" ELSE "no"]
       IN IF rec.act.obj = "uri"
          THEN /\ handlers' = [handlers EXCEPT ![h] = [rec EXCEPT !.pc = "fetch"]]
               /\ UNCHANGED <<last, phase, history>>
          ELSE Complete(h, Respond(rec, 202, "none"))
    /\ UNCHANGED <<Subscribers, Followers, config, metrics, dispatcher, queue,
                   nreq, inboxCount, inboxBuckets, posts, delayRecords>>

\* (variant: the object URI is handed to the fan-out without being fetched)
AnnounceAuthSkipsFetch(h) ==
    /\ handlers[h].pc = "announce"
    /\ LET isMember == isActorSubscribersOrFollowers(handlers[h].act.actor)
           rec == [handlers[h] EXCEPT !.member = IF isMember THEN "yes" ELSE "no"]
       IN IF ~isMember
          THEN Complete(h, Respond(rec, 401, "reason"))
          ELSE IF rec.act.obj = "uri"
          THEN /\ handlers' = [handlers EXCEPT ![h] = [rec EXCEPT !.pc = "fanout"]]
               /\ UNCHANGED <<last, phase, history>>
          ELSE Complete(h, Respond(rec, 202, "none"))
    /\ UNCHANGED <<Subscribers, Followers, config, metrics, dispatcher, queue,
                   nreq, inboxCount, inboxBuckets, posts, delayRecords>>

\* Announce, RelayDirected: the sender must be a member (401 otherwise); an
\* object that is a string is fetched, any other object is skipped with 202
AnnounceAuth(h) ==
    /\ handlers[h].pc = "announce"
    /\ LET isMember == isActorSubscribersOrFollowers(handlers[h].act.actor)
           rec == [handlers[h] EXCEPT !.member = IF isMember THEN "yes" ELSE "no"]
       IN IF ~isMember
          THEN Complete(h, Respond(rec, 401, "reason"))
          ELSE IF rec.act.obj = "uri"
          THEN /\ handlers' = [handlers EXCEPT ![h] = [rec EXCEPT !.pc = "fetch"]]
               /\ UNCHANGED <<last, phase, history>>
          ELSE Complete(h, Respond(rec, 202, "none"))
    /\ UNCHANGED <<Subscribers, Followers, config, metrics, dispatcher, queue,
                   nreq, inboxCount, inboxBuckets, posts, delayRecords>>

\* (variant: the error of the fetch is not looked at)
AnnounceFetchIgnoresError(h) ==
    /\ handlers[h].pc = "fetch"
    /\ \E ok \in BOOLEAN :
         LET rec == [handlers[h] EXCEPT !.fetches = @ + 1, !.fetched = ok,
                                        !.orig = IF ok THEN Original(handlers[h].act) ELSE NoOrig]
         IN /\ handlers' = [handlers EXCEPT ![h] = [rec EXCEPT !.pc = "fanout"]]
            /\ UNCHANGED <<last, phase, history>>
    /\ UNCHANGED <<Subscribers, Followers, config, metrics, dispatcher, queue,
                   nreq, inboxCount, inboxBuckets, posts, delayRecords>>

\* fetchOriginalActivityFromURL: the origin answers or fails (400)
AnnounceFetch(h) ==
    /\ handlers[h].pc = "fetch"
    /\ \E ok \in BOOLEAN :
         LET rec == [handlers[h] EXCEPT !.fetches = @ + 1, !.fetched = ok,
                                        !.orig = IF ok THEN Original(handlers[h].act) ELSE NoOrig]
         IN IF ~ok THEN Complete(h, Respond(rec, 400, "reason"))
            ELSE /\ handlers' = [handlers EXCEPT ![h] = [rec EXCEPT !.pc = "fanout"]]
                 /\ UNCHANGED <<last, phase, history>>
    /\ UNCHANGED <<Subscribers, Followers, config, metrics, dispatcher, queue,
                   nreq, inboxCount, inboxBuckets, posts, delayRecords>>

\* (variant: the received Announce is fanned out instead of the original)
ExecAnnounceWrapper(h) ==
    /\ handlers[h].pc = "fanout"
    /\ LET js == executeAnnounceActivity(Body(handlers[h].act))
           rec == [handlers[h] EXCEPT !.jobs = @ (+) js]
       IN /\ queue' = queue (+) js
          /\ Complete(h, Respond(rec, 202, "none"))
    /\ UNCHANGED <<Subscribers, Followers, config, metrics, dispatcher, nreq, inboxCount, inboxBuckets, posts, delayRecords>>

\* executeAnnounceActivity on the fetched original; 202
ExecAnnounce(h) ==
    /\ handlers[h].pc = "fanout"
    /\ LET js == executeAnnounceActivity(handlers[h].orig)
           rec == [handlers[h] EXCEPT !.jobs = @ (+) js]
       IN /\ queue' = queue (+) js
          /\ Complete(h, Respond(rec, 202, "none"))
    /\ UNCHANGED <<Subscribers, Followers, config, metrics, dispatcher, nreq, inboxCount, inboxBuckets, posts, delayRecords>>

\* ------------------------------------------------- administrative unfollow
SelectSubscriber(d) == IF IsMember(Subscribers, d) THEN d ELSE 0
SelectFollower(d) == IF IsMember(Followers, d) THEN d ELSE 0
DelSubscriber(d) == [Subscribers EXCEPT ![d] = "absent"]
DelFollower(d) == [Followers EXCEPT ![d] = "absent"]

AdminRec(d) ==
    [Idle EXCEPT !.kind = "admin", !.method = "POST", !.decoded = TRUE,
                 !.act = [type |-> "AdminUnfollow", actor |-> d, obj |-> "none"]]

\* handleAdminUnfollow: not POST (405), undecodable body or empty domain (400)
AdminBadRequest(h) ==
    /\ "AdminBad" \in traffic
    /\ FirstIdle(h)
    /\ nreq < budget
    /\ nreq' = nreq + 1
    /\ \E why \in {"method", "body", "domain"} :
         Complete(h, Respond([Idle EXCEPT !.kind = "admin",
                                          !.method = IF why = "method" THEN "GET" ELSE "POST"],
                             IF why = "method" THEN 405 ELSE 400,
                             IF why = "method" THEN "none" ELSE "error"))
    /\ UNCHANGED <<Subscribers, Followers, config, metrics, dispatcher, queue, inboxCount, inboxBuckets, posts, delayRecords>>

\* handleAdminUnfollow: RelayState.SelectSubscriber(req.Domain)
AdminSelectSubscriber(h) ==
    /\ "AdminUnfollow" \in traffic
    /\ FirstIdle(h)
    /\ nreq < budget
    /\ nreq' = nreq + 1
    /\ \E d \in Domain :
         handlers' = [handlers EXCEPT ![h] =
            [AdminRec(d) EXCEPT !.pc = IF SelectSubscriber(d) # 0 THEN "adminSub"
                                       ELSE "adminSelFol"]]
    /\ UNCHANGED <<Subscribers, Followers, config, metrics, dispatcher, queue,
                   last, phase, history, inboxCount, inboxBuckets, posts, delayRecords>>

\* (variant: the subscriber is deleted without being sent a Reject)
AdminUnfollowSubscriberNoReject(h) ==
    /\ handlers[h].pc = "adminSub"
    /\ LET d == handlers[h].act.actor
           rec == [handlers[h] EXCEPT
                      !.muts = @ \cup Changed(Subscribers, Followers, DelSubscriber(d), Followers)]
       IN /\ queue' = queue
          /\ Subscribers' = DelSubscriber(d)
          /\ Complete(h, Respond(rec, 200, "subscriber"))
    /\ UNCHANGED <<Followers, config, metrics, dispatcher, nreq, inboxCount, inboxBuckets, posts, delayRecords>>

\* the selected subscriber: enqueue its Reject, DelSubscriber, 200
AdminUnfollowSubscriber(h) ==
    /\ handlers[h].pc = "adminSub"
    /\ LET d == handlers[h].act.actor
           js == SetToBag({Job(InboxURL(d),
                     Reply("Reject", [type |-> "Follow", actor |-> d, obj |-> "public"]))})
           rec == [handlers[h] EXCEPT
                      !.jobs = @ (+) js,
                      !.muts = @ \cup Changed(Subscribers, Followers, DelSubscriber(d), Followers)]
       IN /\ queue' = queue (+) js
          /\ Subscribers' = DelSubscriber(d)
          /\ Complete(h, Respond(rec, 200, "subscriber"))
    /\ UNCHANGED <<Followers, config, metrics, dispatcher, nreq, inboxCount, inboxBuckets, posts, delayRecords>>

\* no subscriber was selected: RelayState.SelectFollower(req.Domain), else 404
AdminSelectFollower(h) ==
    /\ handlers[h].pc = "adminSelFol"
    /\ IF SelectFollower(handlers[h].act.actor) # 0
       THEN /\ handlers' = [handlers EXCEPT ![h].pc = "adminFol"]
            /\ UNCHANGED <<last, phase, history>>
       ELSE Complete(h, Respond(handlers[h], 404, "error"))
    /\ UNCHANGED <<Subscribers, Followers, config, metrics, dispatcher, queue,
                   nreq, inboxCount, inboxBuckets, posts, delayRecords>>

\* the selected follower: enqueue its Reject, DelFollower, 200
AdminUnfollowFollower(h) ==
    /\ handlers[h].pc = "adminFol"
    /\ LET d == handlers[h].act.actor
           js == SetToBag({Job(InboxURL(d),
                     Reply("Reject", [type |-> "Follow", actor |-> d, obj |-> "relay"]))})
           rec == [handlers[h] EXCEPT
                      !.jobs = @ (+) js,
                      !.muts = @ \cup Changed(Subscribers, Followers, Subscribers, DelFollower(d))]
       IN /\ queue' = queue (+) js
          /\ Followers' = DelFollower(d)
          /\ Complete(h, Respond(rec, 200, "follower"))
    /\ UNCHANGED <<Subscribers, config, metrics, dispatcher, nreq, inboxCount, inboxBuckets, posts, delayRecords>>

\* ---------------------------------------------------- delivery dispatcher
\* attempts after which a job is dropped
AttemptCeiling == 3

\* how a remote inbox answers: 2xx, HTTP 500, or never
Answers == {"ok", "500", "silent"}

\* the senders busy with a request to a remote inbox
Busy ==
    LET now == {e \in BagToSet(dispatcher.sending) : e.state = "sending"}
    IN BagCardinality([e \in now |-> CopiesIn(e, dispatcher.sending)])

\* a free sender takes a submitted job and POSTs it to its destination inbox
StartDelivery ==
    /\ Busy < PoolSize
    /\ \E j \in BagToSet(queue) :
         /\ CopiesIn(j, queue) > CopiesIn(j, dispatcher.taken)
         /\ dispatcher' = [dispatcher EXCEPT
                !.taken = @ (+) SetToBag({j}),
                !.sending = @ (+) SetToBag({[job |-> j, attempt |-> 0, state |-> "sending"]})]
    /\ UNCHANGED <<Subscribers, Followers, config, metrics, queue, handlers, last, nreq,
                   inboxCount, inboxBuckets, posts, phase, delayRecords, history>>

\* (variant: a job is dropped at its first failure)
FinishDeliveryDropsAtOnce ==
    /\ \E e \in BagToSet(dispatcher.sending) :
         /\ e.state = "sending"
         /\ remote[e.job.dest[2]] # "silent"
         /\ LET rest == dispatcher.sending (-) SetToBag({e})
            IN IF remote[e.job.dest[2]] = "ok"
               THEN dispatcher' = [dispatcher EXCEPT
                        !.sending = rest, !.delivered = @ (+) SetToBag({e.job})]
               ELSE dispatcher' = [dispatcher EXCEPT
                        !.sending = rest,
                        !.dropped = @ (+) SetToBag({[job |-> e.job, attempts |-> e.attempt + 1]})]
    /\ UNCHANGED <<Subscribers, Followers, config, metrics, queue, handlers, last, nreq,
                   inboxCount, inboxBuckets, posts, phase, delayRecords, history>>

\* the destination answers: 2xx ends the job; a 500 sends it to back off, or
\* drops it when the attempt ceiling is reached; a silent destination never
\* answers and keeps the sender
FinishDelivery ==
    /\ \E e \in BagToSet(dispatcher.sending) :
         /\ e.state = "sending"
         /\ remote[e.job.dest[2]] # "silent"
         /\ LET rest == dispatcher.sending (-) SetToBag({e})
            IN IF remote[e.job.dest[2]] = "ok"
               THEN dispatcher' = [dispatcher EXCEPT
                        !.sending = rest, !.delivered = @ (+) SetToBag({e.job})]
               ELSE IF e.attempt + 1 >= AttemptCeiling
               THEN dispatcher' = [dispatcher EXCEPT
                        !.sending = rest,
                        !.dropped = @ (+) SetToBag({[job |-> e.job, attempts |-> e.attempt + 1]})]
               ELSE dispatcher' = [dispatcher EXCEPT
                        !.sending = rest (+) SetToBag({[e EXCEPT !.attempt = @ + 1,
                                                                 !.state = "backoff"]})]
    /\ UNCHANGED <<Subscribers, Followers, config, metrics, queue, handlers, last, nreq,
                   inboxCount, inboxBuckets, posts, phase, delayRecords, history>>

\* the backoff of a failed job is over: a free sender POSTs it again
RetryDelivery ==
    /\ Busy < PoolSize
    /\ \E e \in BagToSet(dispatcher.sending) :
         /\ e.state = "backoff"
         /\ dispatcher' = [dispatcher EXCEPT
                !.sending = (@ (-) SetToBag({e})) (+) SetToBag({[e EXCEPT !.state = "sending"]})]
    /\ UNCHANGED <<Subscribers, Followers, config, metrics, queue, handlers, last, nreq,
                   inboxCount, inboxBuckets, posts, phase, delayRecords, history>>

Dispatch == StartDelivery \/ FinishDelivery \/ RetryDelivery

\* ------------------------------------------------------------ the clock
\* half a minute passes
Tick ==
    /\ clock % ExpireAfter < MaxTicks
    /\ clock' = clock + 1
    /\ UNCHANGED <<Subscribers, Followers, BlockedDomains, manuallyAccept, traffic,
                   budget, cls, remote, metrics, dispatcher, queue, handlers, last,
                   nreq, inboxCount, inboxBuckets, posts, phase, delayRecords, history>>

\* 25 hours pass
LongQuiet ==
    /\ clock < ExpireAfter
    /\ clock' = clock + ExpireAfter
    /\ UNCHANGED <<Subscribers, Followers, BlockedDomains, manuallyAccept, traffic,
                   budget, cls, remote, metrics, dispatcher, queue, handlers, last,
                   nreq, inboxCount, inboxBuckets, posts, phase, delayRecords, history>>

\* -------------------------------------------------------- delay metrics
\* the callers of RecordDelay, all for one host within one hour
Recorder == 1 .. NumRecorders

\* the delays recorded, in seconds
Delays == 0 .. MaxDelay

\* the hash before its first command; a field not set is the empty set
NoRecord == [count |-> 0, total |-> 0, min |-> {}, max |-> {}]

IdleCall == [pc |-> "idle", delay |-> 0]

\* the rest of the model, which RecordDelay leaves alone
relay == <<Subscribers, Followers, config, dispatcher, queue, handlers, last, nreq,
           inboxCount, inboxBuckets, posts, phase, delayRecords, history>>

\* the commands of the pipeline reach the store one by one, in order, and the
\* commands of other callers run between them
At(r, pc) == recorders[r].pc = pc

Goto(r, pc) == recorders' = [recorders EXCEPT ![r].pc = pc]

\* RecordDelay is entered with a delay (callers are interchangeable)
CallRecordDelay(r) ==
    /\ At(r, "idle")
    /\ \A q \in Recorder : q < r => ~At(q, "idle")
    /\ \E d \in Delays : recorders' = [recorders EXCEPT ![r] = [pc |-> "count", delay |-> d]]
    /\ UNCHANGED <<hourRecord, relay>>

\* HIncrBy count 1
PipeHIncrBy(r) ==
    /\ At(r, "count")
    /\ hourRecord' = [hourRecord EXCEPT !.count = @ + 1]
    /\ Goto(r, "total")
    /\ UNCHANGED relay

\* HIncrByFloat total_delay DelaySeconds
PipeHIncrByFloat(r) ==
    /\ At(r, "total")
    /\ hourRecord' = [hourRecord EXCEPT !.total = @ + recorders[r].delay]
    /\ Goto(r, "min")
    /\ UNCHANGED relay

\* (variant: HSet, which overwrites)
PipeHSetMin(r) ==
    /\ At(r, "min")
    /\ hourRecord' = [hourRecord EXCEPT !.min = {recorders[r].delay}]
    /\ Goto(r, "max")
    /\ UNCHANGED relay

\* HSetNX min_delay DelaySeconds: sets the field only when it is not there
PipeHSetNXMin(r) ==
    /\ At(r, "min")
    /\ hourRecord' = [hourRecord EXCEPT !.min = IF @ = {} THEN {recorders[r].delay} ELSE @]
    /\ Goto(r, "max")
    /\ UNCHANGED relay

\* HSetNX max_delay DelaySeconds
PipeHSetNXMax(r) ==
    /\ At(r, "max")
    /\ hourRecord' = [hourRecord EXCEPT !.max = IF @ = {} THEN {recorders[r].delay} ELSE @]
    /\ Goto(r, "exec")
    /\ UNCHANGED relay

\* pipe.Exec returns without error: the min/max script is next
PipeExec(r) ==
    /\ At(r, "exec")
    /\ Goto(r, "script")
    /\ UNCHANGED <<hourRecord, relay>>

\* pipe.Exec returns an error, the commands run so far stay: return err
PipeExecFails(r) ==
    /\ recorders[r].pc \in {"count", "total", "min", "max", "exec"}
    /\ Goto(r, "failed")
    /\ UNCHANGED <<hourRecord, relay>>

\* the Lua script, one atomic step: lower min_delay, raise max_delay; return nil
UpdateMinMaxScript(r) ==
    /\ At(r, "script")
    /\ LET new_val == recorders[r].delay
       IN  hourRecord' =
             [hourRecord EXCEPT
                !.min = IF @ = {} \/ (\E m \in @ : new_val < m) THEN {new_val} ELSE @,
                !.max = IF @ = {} \/ (\E m \in @ : new_val > m) THEN {new_val} ELSE @]
    /\ Goto(r, "done")
    /\ UNCHANGED relay

RecordDelay(r) ==
    \/ CallRecordDelay(r)
    \/ PipeHIncrBy(r)
    \/ PipeHIncrByFloat(r)
    \/ PipeHSetNXMin(r)
    \/ PipeHSetNXMax(r)
    \/ PipeExec(r)
    \/ PipeExecFails(r)
    \/ UpdateMinMaxScript(r)

\* strconv.ParseFloat of a field, its error ignored: 0 when the field is not there
ParseFloat(field) == IF field = {} THEN 0 ELSE CHOOSE v \in field : TRUE

NoStats == [SampleCount |-> 0, TotalDelay |-> 0, MinDelaySeconds |-> 0, MaxDelaySeconds |-> 0]

\* getInstanceStats: what a reader of the hash sees, nothing while count is 0;
\* the average it reports is TotalDelay / SampleCount
getInstanceStats(rec) ==
    IF rec.count = 0
    THEN NoStats
    ELSE [SampleCount |-> rec.count, TotalDelay |-> rec.total,
          MinDelaySeconds |-> ParseFloat(rec.min), MaxDelaySeconds |-> ParseFloat(rec.max)]

\* --------------------------------------------------------- specification
NoHistory == [on |-> FALSE, ops |-> <<>>]
NoDispatch ==
    [taken |-> EmptyBag, sending |-> EmptyBag, delivered |-> EmptyBag, dropped |-> EmptyBag]
AllAnswer == [d \in Domain |-> "ok"]

InitEnv(sent, howMany, blocked, manual, audited, answers) ==
    /\ Subscribers = [d \in Domain |-> "absent"]
    /\ Followers = [d \in Domain |-> "absent"]
    /\ BlockedDomains \in blocked
    /\ manuallyAccept \in manual
    /\ queue = EmptyBag
    /\ handlers = [h \in Handler |-> Idle]
    /\ last = Idle
    /\ nreq = 0
    /\ traffic = sent
    /\ budget = howMany
    /\ inboxCount = 0
    /\ phase = [d \in Domain |-> "none"]
    /\ cls = NoCls
    /\ delayRecords = 0
    /\ history = [NoHistory EXCEPT !.on = audited]
    /\ remote \in answers
    /\ dispatcher = NoDispatch
    /\ clock = 0
    /\ inboxBuckets = <<>>
    /\ posts = 0
    /\ hourRecord = NoRecord
    /\ recorders = [r \in Recorder |-> IdleCall]

InitWith(sent, howMany, blocked, manual) ==
    InitEnv(sent, howMany, blocked, manual, FALSE, {AllAnswer})

\* some domain is blocked or none is (domains are interchangeable)
BlockedChoices == {{}, {NumDomains}}

\* any traffic, any configuration
Init == InitWith(AllTraffic, MaxRequests, BlockedChoices, BOOLEAN)

Next ==
    \E h \in Handler :
        \/ ReceiveBadMethod(h)
        \/ ReceiveUndecodable(h)
        \/ ReceiveActivity(h)
        \/ ExecRelay(h)
        \/ ExecFollow(h)
        \/ ExecUnfollow(h)
        \/ ExecFinalize(h)
        \/ AnnounceAuth(h)
        \/ AnnounceFetch(h)
        \/ ExecAnnounce(h)
        \/ AdminBadRequest(h)
        \/ AdminSelectSubscriber(h)
        \/ AdminUnfollowSubscriber(h)
        \/ AdminSelectFollower(h)
        \/ AdminUnfollowFollower(h)

Spec == Init /\ [][Next]_vars

\* clients that only follow and unfollow
InitHandshake == InitWith({"Follow", "Undo"}, MaxHandshakes, BlockedChoices, BOOLEAN)

NextHandshake ==
    \E h \in Handler :
        \/ ReceiveActivity(h)
        \/ ExecFollow(h)
        \/ ExecUnfollow(h)

SpecHandshake == InitHandshake /\ [][NextHandshake]_vars

\* an auto-approving relay whose members publish, announce and leave
InitFanout ==
    InitWith({"Follow", "Undo", "Create", "Update", "Delete", "Move", "Announce"},
             MaxFanout, {{}}, {FALSE})

NextFanout ==
    \E h \in Handler :
        \/ ReceiveActivity(h)
        \/ ExecRelay(h)
        \/ ExecFollow(h)
        \/ ExecUnfollow(h)
        \/ AnnounceAuth(h)
        \/ AnnounceFetch(h)
        \/ ExecAnnounce(h)

SpecFanout == InitFanout /\ [][NextFanout]_vars

\* an auto-approving relay whose members come and go and whose administrator
\* removes them, with the completed operations logged
InitMembership ==
    InitEnv({"Follow", "Undo", "AdminUnfollow"}, MaxMembershipOps, {{}}, {FALSE},
            TRUE, {AllAnswer})

NextMembership ==
    \E h \in Handler :
        \/ ReceiveActivity(h)
        \/ ExecFollow(h)
        \/ ExecUnfollow(h)
        \/ AdminSelectSubscriber(h)
        \/ AdminUnfollowSubscriber(h)
        \/ AdminSelectFollower(h)
        \/ AdminUnfollowFollower(h)

SpecMembership == InitMembership /\ [][NextMembership]_vars

\* a relay whose peers send every handshake activity and whose administrator
\* removes members
InitRegistry ==
    InitWith({"Follow", "Undo", "Accept", "Reject", "AdminUnfollow"}, MaxRegistryOps,
             {{}}, BOOLEAN)

NextRegistry ==
    \E h \in Handler :
        \/ ReceiveActivity(h)
        \/ ExecFollow(h)
        \/ ExecUnfollow(h)
        \/ ExecFinalize(h)
        \/ AdminSelectSubscriber(h)
        \/ AdminUnfollowSubscriber(h)
        \/ AdminSelectFollower(h)
        \/ AdminUnfollowFollower(h)

SpecRegistry == InitRegistry /\ [][NextRegistry]_vars

\* the inbox endpoint alone: any method, any body, any activity, stamped or not
InitInbox ==
    InitWith(Types \cup {"GET", "undecodable", "stamped"}, MaxInbox, {{}}, {FALSE})

NextInbox ==
    \E h \in Handler :
        \/ ReceiveBadMethod(h)
        \/ ReceiveUndecodable(h)
        \/ ReceiveActivity(h)
        \/ ExecRelay(h)
        \/ ExecFollow(h)
        \/ ExecUnfollow(h)
        \/ ExecFinalize(h)
        \/ AnnounceAuth(h)
        \/ AnnounceFetch(h)
        \/ ExecAnnounce(h)

SpecInbox == InitInbox /\ [][NextInbox]_vars

\* subscribers join and publish while the dispatcher delivers to inboxes that
\* accept, fail or never answer; handlers and senders keep running
InitDelivery ==
    InitEnv({"Follow", "Create"}, MaxDeliveryRequests, {{}}, {FALSE}, FALSE,
            [Domain -> Answers])

\* the next step of the request handler h is working on
HandlerStep(h) == ExecRelay(h) \/ ExecFollow(h)

NextDelivery ==
    \/ \E h \in Handler : ReceiveActivity(h) \/ HandlerStep(h)
    \/ Dispatch

SpecDelivery ==
    /\ InitDelivery
    /\ [][NextDelivery]_vars
    /\ \A h \in Handler : WF_vars(HandlerStep(h))
    /\ WF_vars(Dispatch)

\* members join and the administrator, from several connections, removes them
InitAdmin ==
    InitWith({"Follow", "AdminUnfollow"}, MaxMembershipOps, {{}}, {FALSE})

NextAdmin ==
    \E h \in Handler :
        \/ ReceiveActivity(h)
        \/ ExecFollow(h)
        \/ AdminSelectSubscriber(h)
        \/ AdminUnfollowSubscriber(h)
        \/ AdminSelectFollower(h)
        \/ AdminUnfollowFollower(h)

SpecAdmin == InitAdmin /\ [][NextAdmin]_vars

\* the inbox and its counters while time passes
InitStats ==
    InitWith({"Follow", "Create", "undecodable", "GET"}, MaxCounted, BlockedChoices, {FALSE})

NextStats ==
    \/ Tick
    \/ LongQuiet
    \/ \E h \in Handler :
        \/ ReceiveBadMethod(h)
        \/ ReceiveUndecodable(h)
        \/ ReceiveActivity(h)
        \/ ExecRelay(h)
        \/ ExecFollow(h)

SpecStats == InitStats /\ [][NextStats]_vars

\* concurrent calls of RecordDelay for one host within one hour
InitMetrics == InitWith({}, 0, {{}}, {FALSE})

NextMetrics == \E r \in Recorder : RecordDelay(r)

SpecMetrics == InitMetrics /\ [][NextMetrics]_vars

\* the addressing switch alone, on every pair of recipient lists and every
\* registry of followers
Recipient == {PublicURI, RelayActorID, OtherURI} \cup {InboxURL(d) : d \in Domain}

InitClassify ==
    /\ Subscribers = [d \in Domain |-> "absent"]
    /\ Followers \in [Domain -> {"absent", "pending", "active"}]
    /\ BlockedDomains = {}
    /\ manuallyAccept = FALSE
    /\ queue = EmptyBag
    /\ handlers = [h \in Handler |-> Idle]
    /\ last = Idle
    /\ nreq = 0
    /\ traffic = {}
    /\ budget = 0
    /\ inboxCount = 0
    /\ phase = [d \in Domain |-> "none"]
    /\ cls = NoCls
    /\ delayRecords = 0
    /\ history = NoHistory
    /\ remote = AllAnswer
    /\ dispatcher = NoDispatch
    /\ clock = 0
    /\ inboxBuckets = <<>>
    /\ posts = 0
    /\ hourRecord = NoRecord
    /\ recorders = [r \in Recorder |-> IdleCall]

ClassifyStep ==
    /\ ~cls.probed
    /\ \E to \in SUBSET Recipient, cc \in SUBSET Recipient :
         cls' = [probed |-> TRUE, to |-> to, cc |-> cc, selected |-> Selected(to, cc)]
    /\ UNCHANGED <<Subscribers, Followers, BlockedDomains, manuallyAccept, queue,
                   handlers, last, nreq, traffic, budget, inboxCount, inboxBuckets, posts, phase,
                   delayRecords, history, remote, dispatcher, clock, metrics>>

SpecClassify == InitClassify /\ [][ClassifyStep]_vars

\* ================================================================ claims

\* C1: every pair of recipient lists enters exactly one body of the
\* addressing switch, one of the three dialects, and the public-audience URI
\* in to or cc selects PublicBroadcast whatever else the lists hold (the
\* relay actor's ID, a follower's inbox).
C1_ClassificationTotalPublicWins ==
    cls.probed =>
        /\ Cardinality(cls.selected) = 1
        /\ cls.selected \subseteq Dialects
        /\ (PublicURI \in (cls.to \cup cls.cc)) => cls.selected = {"PublicBroadcast"}

\* reached: public audience, relay ID and an active follower's inbox together
C1_Witness ==
    /\ cls.probed
    /\ PublicURI \in cls.cc
    /\ RelayActorID \in cls.to
    /\ \E d \in Domain : Followers[d] = "active" /\ InboxURL(d) \in cls.to
    /\ cls.selected = {"PublicBroadcast"}

\* C2: once a Follow from a domain and then an Undo(Follow) from it have been
\* processed (RelayDirected or Unaddressed), the domain has no record in
\* Subscribers nor in Followers, whatever requests of other domains ran
\* in between or concurrently.
C2_FollowThenUndoLeavesAbsent ==
    \A d \in Domain :
        phase[d] = "undone" => Subscribers[d] = "absent" /\ Followers[d] = "absent"

\* reached: D followed and unfollowed while a Follow of another domain is in
\* flight
C2_Witness ==
    \E d \in Domain, e \in Domain :
        /\ e # d
        /\ phase[d] = "undone"
        /\ \E h \in Handler : handlers[h].pc = "follow" /\ handlers[h].act.actor = e

\* a decoded inbox activity that completed last
Done(type) == last.kind = "inbox" /\ last.decoded /\ last.act.type = type

NoEffect(rec) == rec.muts = {} /\ rec.jobs = EmptyBag /\ rec.fetches = 0

RejectJobFor(act) == Job(InboxURL(act.actor), Reply("Reject", act))
AcceptJobFor(act) == Job(InboxURL(act.actor), Reply("Accept", act))

\* C3: a Follow of a blocked domain, RelayDirected or Unaddressed, changes no
\* membership record and enqueues exactly one job, the Reject to its sender
\* (so no Accept); a blocked domain never holds a record.
C3_BlockedFollowRejected ==
    /\ \A d \in BlockedDomains : Subscribers[d] = "absent" /\ Followers[d] = "absent"
    /\ (Done("Follow") /\ last.dialect \in {"RelayDirected", "Unaddressed"}
            /\ last.act.actor \in BlockedDomains)
        => /\ last.muts = {}
           /\ last.jobs = SetToBag({RejectJobFor(last.act)})
           /\ CopiesIn(AcceptJobFor(last.act), queue) = 0

\* reached: a blocked domain's Follow, not addressed to anyone, was processed
C3_Witness ==
    /\ Done("Follow")
    /\ last.dialect = "Unaddressed"
    /\ last.act.actor \in BlockedDomains
    /\ last.status = 202
    /\ CopiesIn(RejectJobFor(last.act), queue) = 1

\* C4: a RelayDirected Announce whose actor is, when the handler checks,
\* neither an active Subscriber nor an active Follower ends there: 401 with a
\* plain-text reason, no delivery job, no remote fetch, no membership change.
C4_NonMemberAnnounceRefused ==
    /\ \A h \in Handler : handlers[h].member # "no"
    /\ (Done("Announce") /\ last.dialect = "RelayDirected" /\ last.member = "no")
        => /\ last.status = 401
           /\ last.body = "reason"
           /\ NoEffect(last)
           /\ last.seenSubs[last.act.actor] # "active"
           /\ last.seenFols[last.act.actor] # "active"

\* reached: a non-member's Announce was refused while another domain is a member
C4_Witness ==
    /\ Done("Announce")
    /\ last.dialect = "RelayDirected"
    /\ last.member = "no"
    /\ last.status = 401
    /\ \E e \in Domain : e # last.act.actor /\ isActorSubscribersOrFollowers(e)

\* the requests in flight and the one that completed last
Records == {handlers[h] : h \in Handler} \cup {last}

\* C5: a member's Announce whose object is a bare URI makes exactly one remote
\* fetch, and no delivery job of an Announce exists before its fetch has
\* returned the original activity.
C5_OneFetchBeforeFanout ==
    /\ \A r \in Records :
          (r.kind = "inbox" /\ r.act.type = "Announce") =>
              /\ r.fetches <= 1
              /\ r.jobs # EmptyBag => (r.fetches = 1 /\ r.fetched)
              /\ r.pc = "fanout" => (r.fetches = 1 /\ r.fetched /\ r.jobs = EmptyBag)
    /\ (Done("Announce") /\ last.member = "yes" /\ last.act.obj = "uri")
          => last.fetches = 1

\* reached: a member's bare-URI Announce was fetched once and fanned out
C5_Witness ==
    /\ Done("Announce")
    /\ last.member = "yes"
    /\ last.act.obj = "uri"
    /\ last.fetches = 1
    /\ last.fetched
    /\ last.jobs # EmptyBag
    /\ last.status = 202

\* one job carrying payload for every active Subscriber and every active
\* Follower of the registry the request's last step found
FanoutOf(rec, payload) ==
    SetToBag({Job(InboxURL(d), payload) : d \in ActiveOf(rec.seenSubs)})
        (+) SetToBag({Job(InboxURL(d), payload) : d \in ActiveOf(rec.seenFols)})

\* C6 as stated: every RelayDirected Announce of a member, bare URI or
\* embedded object, is fanned out as the resolved original to all active
\* Subscribers and Followers.
C6_Original_EveryMemberAnnounceFansOut ==
    (Done("Announce") /\ last.dialect = "RelayDirected" /\ last.member = "yes")
        => last.jobs = FanoutOf(last, Original(last.act))

\* C6 amended: a member's RelayDirected Announce whose object is a bare URI
\* that is fetched is fanned out as the resolved original (never the Announce
\* itself) to all active Subscribers and Followers, with 202; one whose object
\* is embedded is skipped with 202, and one whose fetch fails gets 400, both
\* without any delivery job.
C6_FetchedAnnounceFansOutOriginal ==
    (Done("Announce") /\ last.dialect = "RelayDirected" /\ last.member = "yes")
        => /\ (last.act.obj = "uri" /\ last.fetched)
                => /\ last.jobs = FanoutOf(last, Original(last.act))
                   /\ last.status = 202
           /\ (last.act.obj = "uri" /\ ~last.fetched)
                => last.jobs = EmptyBag /\ last.status = 400
           /\ last.act.obj # "uri" => last.jobs = EmptyBag /\ last.status = 202

\* reached: a fetched Announce fanned out to its sender and to another member
C6_Witness ==
    /\ Done("Announce")
    /\ last.member = "yes"
    /\ last.act.obj = "uri"
    /\ last.fetched
    /\ \E e \in Domain :
          /\ e # last.act.actor
          /\ CopiesIn(Job(InboxURL(e), Original(last.act)), last.jobs) >= 1
    /\ CopiesIn(Job(InboxURL(last.act.actor), Original(last.act)), queue) >= 1

\* a Follow whose admission failed has completed (RelayDirected or Unaddressed)
FailedFollowDone ==
    /\ Done("Follow")
    /\ last.dialect \in {"RelayDirected", "Unaddressed"}
    /\ ~isFollowAcceptable(last.act)

C8_MalformedInnerIsNoOp ==
    (last.kind = "inbox" /\ last.decoded
        /\ last.act.type \in {"Undo", "Accept", "Reject"}
        /\ UnwrapInnerActivity(last.act.obj).err)
        => /\ last.status = 202
           /\ last.body = "none"
           /\ NoEffect(last)

\* reached: a malformed Undo addressed to the relay, from a domain with a record
C8_Witness ==
    /\ Done("Undo")
    /\ last.act.obj = "malformed"
    /\ last.dialect = "RelayDirected"
    /\ last.status = 202
    /\ IsMember(Subscribers, last.act.actor) \/ IsMember(Followers, last.act.actor)

\* the (dialect, type) pairs handleInbox routes to an operation
RoutedPairs ==
    ({"PublicBroadcast"} \X {"Create", "Update", "Delete", "Move"})
        \cup ({"RelayDirected"} \X {"Follow", "Undo", "Accept", "Reject", "Announce"})
        \cup ({"Unaddressed"} \X {"Follow", "Undo"})

Unrouted(rec) ==
    \/ <<rec.dialect, rec.act.type>> \notin RoutedPairs
    \/ rec.act.type \in {"Undo", "Accept", "Reject"} /\ rec.act.obj = "Other"

\* C9: a decoded activity whose (dialect, type) pair is not routed, or that is
\* an Undo / Accept / Reject wrapping something other than a Follow, is
\* acknowledged with 202 and causes no fan-out, no reply job and no
\* membership change.
C9_UnroutedIsAcknowledgedOnly ==
    (last.kind = "inbox" /\ last.decoded /\ Unrouted(last))
        => /\ last.status = 202
           /\ last.body = "none"
           /\ NoEffect(last)

\* reached: an unaddressed Reject(Follow) from a domain holding a Follower record
C9_Witness ==
    /\ Done("Reject")
    /\ last.dialect = "Unaddressed"
    /\ last.act.obj = "Follow"
    /\ IsMember(Followers, last.act.actor)
    /\ last.status = 202

RelayedTypes == {"Create", "Update", "Delete", "Move"}

\* a PublicBroadcast Create / Update / Delete / Move answered 202 made exactly
\* one job per active Subscriber of the snapshot, each carrying the body received
RelayFanoutExact ==
    (last.kind = "inbox" /\ last.decoded /\ last.dialect = "PublicBroadcast"
        /\ last.act.type \in RelayedTypes)
        => /\ last.status = 202
           /\ last.jobs = SetToBag({Job(InboxURL(d), Body(last.act)) :
                                        d \in ActiveOf(last.seenSubs)})
           /\ BagCardinality(last.jobs) = Cardinality(ActiveOf(last.seenSubs))
           /\ last.muts = {}

\* no step takes a job out of the queue, whatever it does to the registry
JobsAreKept ==
    \A j \in BagToSet(queue) : CopiesIn(j, queue') >= CopiesIn(j, queue)

SerialFollow(reg, act) ==
    LET d == act.actor
    IN IF d \in BlockedDomains
       THEN [subs |-> reg.subs, fols |-> reg.fols, status |-> 202, body |-> "none",
             jobs |-> SetToBag({RejectJobFor(act)})]
       ELSE [subs |-> IF act.obj = "public"
                      THEN [reg.subs EXCEPT ![d] = IF manuallyAccept THEN "pending" ELSE "active"]
                      ELSE reg.subs,
             fols |-> IF act.obj = "public" THEN reg.fols
                      ELSE [reg.fols EXCEPT ![d] = IF manuallyAccept THEN "pending" ELSE "active"],
             status |-> 202, body |-> "none",
             jobs |-> IF manuallyAccept THEN EmptyBag ELSE SetToBag({AcceptJobFor(act)})]

SerialUndo(reg, act) ==
    LET d == act.actor
    IN IF reg.subs[d] = "absent" /\ reg.fols[d] = "absent"
       THEN [subs |-> reg.subs, fols |-> reg.fols, status |-> 202, body |-> "none",
             jobs |-> SetToBag({RejectJobFor(act)})]
       ELSE [subs |-> [reg.subs EXCEPT ![d] = "absent"],
             fols |-> [reg.fols EXCEPT ![d] = "absent"],
             status |-> 202, body |-> "none", jobs |-> EmptyBag]

SerialAdminUnfollow(reg, act) ==
    LET d == act.actor
        reject(obj) == SetToBag({Job(InboxURL(d),
                           Reply("Reject", [type |-> "Follow", actor |-> d, obj |-> obj]))})
    IN IF reg.subs[d] # "absent"
       THEN [subs |-> [reg.subs EXCEPT ![d] = "absent"], fols |-> reg.fols,
             status |-> 200, body |-> "subscriber", jobs |-> reject("public")]
       ELSE IF reg.fols[d] # "absent"
       THEN [subs |-> reg.subs, fols |-> [reg.fols EXCEPT ![d] = "absent"],
             status |-> 200, body |-> "follower", jobs |-> reject("relay")]
       ELSE [subs |-> reg.subs, fols |-> reg.fols, status |-> 404, body |-> "error",
             jobs |-> EmptyBag]

SerialStep(reg, e) ==
    IF e.kind = "admin" THEN SerialAdminUnfollow(reg, e.act)
    ELSE IF e.act.type = "Follow" THEN SerialFollow(reg, e.act)
    ELSE SerialUndo(reg, e.act)

\* running the logged operations ops one at a time in the order perm, from
\* position i on: every operation answers and submits what the log says, and
\* the registry ends as the relay's registry is
RECURSIVE SerialRunMatches(_, _, _, _)
SerialRunMatches(reg, ops, perm, i) ==
    IF i > Len(ops)
    THEN reg.subs = Subscribers /\ reg.fols = Followers
    ELSE LET e == ops[perm[i]]
             r == SerialStep(reg, e)
         IN /\ r.status = e.status
            /\ r.body = e.body
            /\ r.jobs = e.jobs
            /\ SerialRunMatches([subs |-> r.subs, fols |-> r.fols], ops, perm, i + 1)

SerialOrders(n) == {f \in [1..n -> 1..n] : \A i, j \in 1..n : f[i] = f[j] => i = j}

Quiescent == \A h \in Handler : handlers[h].pc = "idle"

\* C11: whenever no membership operation is in flight, the registry and the
\* responses and jobs of the operations completed so far (Follow, Undo(Follow),
\* administrative unfollow, run concurrently) are those of running the same
\* operations one at a time in some order.
C11_MembershipOpsLinearizable ==
    (history.on /\ Quiescent) =>
        \E perm \in SerialOrders(Len(history.ops)) :
            SerialRunMatches([subs |-> [d \in Domain |-> "absent"],
                              fols |-> [d \in Domain |-> "absent"]],
                             history.ops, perm, 1)

FollowStepOf(d, obj) ==
    \E h \in Handler :
        /\ handlers[h].pc = "follow"
        /\ handlers[h].act.actor = d
        /\ handlers[h].act.obj = obj
        /\ handlers'[h].pc = "idle"

RecordsCreatedOnlyByFollow ==
    \A d \in Domain :
        /\ (Subscribers[d] = "absent" /\ Subscribers'[d] # "absent") => FollowStepOf(d, "public")
        /\ (Followers[d] = "absent" /\ Followers'[d] # "absent") => FollowStepOf(d, "relay")

AnsweredAtOnce ==
    /\ nreq' = nreq + 1
    /\ handlers' = handlers
    /\ last'.kind = "inbox"

Undecoded(rec) == rec.kind = "inbox" /\ rec.method = "POST" /\ ~rec.decoded

DecodeErrorIs400 ==
    Undecoded(last) => /\ last.status = 400
                       /\ last.body = "none"
                       /\ NoEffect(last)

DecodeErrorChangesNothing ==
    (AnsweredAtOnce /\ Undecoded(last'))
        => /\ Subscribers' = Subscribers
           /\ Followers' = Followers
           /\ queue' = queue
           /\ delayRecords' = delayRecords

\* C13: a POST to the inbox whose body the decoder refuses is answered 400,
\* and the step that handles it leaves every membership record, the delivery
\* queue and the delay records as they were.
C13_DecodeErrorIs400NoChange == []DecodeErrorIs400 /\ [][DecodeErrorChangesNothing]_vars

\* reached: an undecodable body arrived at a relay that has a member and a
\* delay record
C13_Witness ==
    /\ Undecoded(last)
    /\ last.status = 400
    /\ delayRecords = 1
    /\ \E d \in Domain : Subscribers[d] = "active"

\* ---- C14: handlers do not wait for deliveries
\* a handler in flight can always take its next step, whatever the senders
\* and the destinations are doing
HandlerNeverWaits ==
    \A h \in Handler : handlers[h].pc # "idle" => ENABLED HandlerStep(h)

\* a job waits at a destination that never answers
StuckDelivery ==
    \E e \in BagToSet(dispatcher.sending) :
        e.state = "sending" /\ remote[e.job.dest[2]] = "silent"

\* C14: a request in flight can always proceed and is eventually answered,
\* whether the destination inboxes accept, fail or never answer: submitting a
\* job does not wait for the dispatcher.
C14_HandlersNeverBlockOnDelivery ==
    /\ []HandlerNeverWaits
    /\ \A h \in Handler : (handlers[h].pc # "idle") ~> (handlers[h].pc = "idle")

\* reached: a Create was answered 202 and its job submitted while the only
\* sender is held by a destination that never answers
C14_Witness ==
    /\ StuckDelivery
    /\ Busy = PoolSize
    /\ Done("Create")
    /\ last.status = 202
    /\ \E j \in BagToSet(last.jobs) : CopiesIn(j, dispatcher.taken) = 0

\* ---- C15: replies to an Undo(Follow)
\* an Undo(Follow) in the RelayDirected or Unaddressed dialect has completed
UndoFollowDone ==
    /\ Done("Undo")
    /\ last.act.obj = "Follow"
    /\ last.dialect \in {"RelayDirected", "Unaddressed"}

\* the records the sender's domain held when the unfollow ran
RecordsSeen(rec) ==
    {<<"Subscribers", d>> : d \in {e \in {rec.act.actor} : rec.seenSubs[e] # "absent"}}
        \cup {<<"Followers", d>> : d \in {e \in {rec.act.actor} : rec.seenFols[e] # "absent"}}

\* C15 as stated: an Undo(Follow) never enqueues a reply, whether or not the
\* unfollow succeeds.
C15_Original_UndoNeverReplies == UndoFollowDone => last.jobs = EmptyBag

\* C15 amended: an Undo(Follow) from a domain that holds a record deletes
\* that record and enqueues nothing; one from a domain without a record (the
\* unfollow fails) deletes nothing and enqueues one Reject to its sender;
\* both are answered 202.
C15_UndoRepliesOnlyOnFailure ==
    UndoFollowDone =>
        /\ last.status = 202
        /\ last.muts = RecordsSeen(last)
        /\ RecordsSeen(last) # {} => last.jobs = EmptyBag
        /\ RecordsSeen(last) = {} => last.jobs = SetToBag({RejectJobFor(last.act)})

\* reached: the second Undo(Follow) of a domain, which holds no record any
\* more, was answered with a Reject
C15_Witness ==
    /\ UndoFollowDone
    /\ phase[last.act.actor] = "undone"
    /\ RecordsSeen(last) = {}
    /\ CopiesIn(RejectJobFor(last.act), queue) >= 1

\* ---- C16: the administrative unfollow
AdminDone == last.kind = "admin" /\ last.decoded

\* the Reject an administrative unfollow sends to domain d, for the Follow
\* (of the given object) that made it a member
AdminReject(d, obj) ==
    Job(InboxURL(d), Reply("Reject", [type |-> "Follow", actor |-> d, obj |-> obj]))

AdminOutcome ==
    AdminDone =>
        LET d == last.act.actor
        IN \/ /\ last.status = 200 /\ last.body = "subscriber"
              /\ last.jobs = SetToBag({AdminReject(d, "public")})
              /\ last.muts \subseteq {<<"Subscribers", d>>}
           \/ /\ last.status = 200 /\ last.body = "follower"
              /\ last.jobs = SetToBag({AdminReject(d, "relay")})
              /\ last.muts \subseteq {<<"Followers", d>>}
           \/ /\ last.status = 404
              /\ NoEffect(last)
              /\ last.seenFols[d] = "absent"

OthersKept(d) ==
    \A e \in Domain \ {d} : Subscribers'[e] = Subscribers[e] /\ Followers'[e] = Followers[e]

\* the steps of one administrative unfollow, by the position of its handler
\* before and after
AdminSteps ==
    \A h \in Handler :
        LET d == handlers'[h].act.actor
            c == handlers[h].act.actor
        IN /\ (handlers[h].pc = "idle" /\ handlers'[h].kind = "admin")
                 => /\ handlers'[h].pc = "adminSub" <=> IsMember(Subscribers, d)
                    /\ handlers'[h].pc = "adminSelFol" <=> ~IsMember(Subscribers, d)
                    /\ UNCHANGED <<Subscribers, Followers, queue>>
           /\ (handlers[h].pc = "adminSub" /\ handlers'[h] # handlers[h])
                 => /\ Subscribers'[c] = "absent"
                    /\ Followers' = Followers
                    /\ OthersKept(c)
                    /\ queue' = queue (+) SetToBag({AdminReject(c, "public")})
                    /\ last'.status = 200 /\ last'.body = "subscriber"
           /\ (handlers[h].pc = "adminSelFol" /\ handlers'[h] # handlers[h])
                 => /\ UNCHANGED <<Subscribers, Followers, queue>>
                    /\ IF IsMember(Followers, c) THEN handlers'[h].pc = "adminFol"
                       ELSE handlers'[h].pc = "idle" /\ last'.status = 404
           /\ (handlers[h].pc = "adminFol" /\ handlers'[h] # handlers[h])
                 => /\ Followers'[c] = "absent"
                    /\ Subscribers' = Subscribers
                    /\ OthersKept(c)
                    /\ queue' = queue (+) SetToBag({AdminReject(c, "relay")})
                    /\ last'.status = 200 /\ last'.body = "follower"

\* C16: an administrative unfollow of domain D that finds a Subscriber
\* record enqueues exactly one Reject to D's inbox, deletes the record and
\* answers 200 "subscriber"; finding none but a Follower record it does the
\* same for that record with "follower"; finding neither it answers 404 and
\* leaves registry and queue alone. No step of it changes another domain's
\* records.
C16_AdminUnfollowRemovesOneRecord == []AdminOutcome /\ [][AdminSteps]_vars

\* reached: D's Subscriber record was removed by the administrator while
\* another domain keeps its record
C16_Witness ==
    /\ AdminDone
    /\ last.status = 200
    /\ last.body = "subscriber"
    /\ Subscribers[last.act.actor] = "absent"
    /\ CopiesIn(AdminReject(last.act.actor, "public"), queue) = 1
    /\ \E e \in Domain \ {last.act.actor} : IsMember(Subscribers, e) \/ IsMember(Followers, e)

\* ---- C17: retries of a failing delivery
\* attempts stay below the ceiling; a dropped job was sent to a destination
\* answering 500, as many times as the ceiling says, so more than once; a
\* delivered job went to a destination that accepts
RetriesBounded ==
    /\ \A e \in BagToSet(dispatcher.sending) :
          /\ e.attempt < AttemptCeiling
          /\ e.attempt > 0 => remote[e.job.dest[2]] = "500"
    /\ \A x \in BagToSet(dispatcher.dropped) :
          /\ x.attempts = AttemptCeiling
          /\ x.attempts >= 2
          /\ remote[x.job.dest[2]] = "500"
    /\ \A j \in BagToSet(dispatcher.delivered) : remote[j.dest[2]] = "ok"

\* a job backing off holds no sender: when none is sending, a waiting job
\* can be taken
BackoffFreesSender ==
    ((\A e \in BagToSet(dispatcher.sending) : e.state = "backoff")
        /\ \E j \in BagToSet(queue) : CopiesIn(j, queue) > CopiesIn(j, dispatcher.taken))
        => ENABLED StartDelivery

\* every job submitted has been delivered or dropped
Settled ==
    /\ dispatcher.sending = EmptyBag
    /\ BagCardinality(dispatcher.delivered) + BagCardinality(dispatcher.dropped)
          = BagCardinality(queue)

NoSilent == \A d \in Domain : remote[d] # "silent"

\* C17: a job whose destination keeps answering 500 is sent again after its
\* first failure and dropped when the attempt ceiling is reached, never later;
\* while it backs off the sender is free for other jobs; and when every
\* destination answers (2xx or 500) all jobs end delivered or dropped.
C17_RetriedThenDropped ==
    /\ [](RetriesBounded /\ BackoffFreesSender)
    /\ <>[](NoSilent => Settled)

\* reached: a job for a destination answering 500 was dropped at the ceiling
\* and a job for another destination was delivered
C17_Witness ==
    \E x \in BagToSet(dispatcher.dropped), j \in BagToSet(dispatcher.delivered) :
        /\ x.attempts = AttemptCeiling
        /\ remote[x.job.dest[2]] = "500"
        /\ j.dest # x.job.dest

\* ---- C18: Accept and Reject outside the RelayDirected dialect
\* C18: finalizeMutuallyFollow only ever runs for a RelayDirected Accept or
\* Reject wrapping a Follow; an Accept or Reject classified Unaddressed or
\* PublicBroadcast is answered 202, changes no membership record and
\* enqueues nothing.
C18_FinalizeOnlyRelayDirected ==
    /\ \A h \in Handler :
          handlers[h].pc = "finalize"
              => /\ handlers[h].dialect = "RelayDirected"
                 /\ handlers[h].act.type \in {"Accept", "Reject"}
                 /\ handlers[h].act.obj = "Follow"
    /\ (last.kind = "inbox" /\ last.decoded
            /\ last.act.type \in {"Accept", "Reject"}
            /\ last.dialect \in {"Unaddressed", "PublicBroadcast"})
          => /\ last.status = 202
             /\ last.muts = {}
             /\ last.jobs = EmptyBag

\* reached: an unaddressed Accept(Follow) from a domain whose Follower record
\* is pending, and still is
C18_Witness ==
    /\ Done("Accept")
    /\ last.dialect = "Unaddressed"
    /\ last.act.obj = "Follow"
    /\ last.status = 202
    /\ last.seenFols[last.act.actor] = "pending"
    /\ Followers[last.act.actor] = "pending"

\* ---- C19: the status codes of handleInbox
OneStatusWritten ==
    /\ \A h \in Handler : handlers[h].writes = 0
    /\ (last.kind = "inbox" /\ last.pc = "done")
          => /\ last.writes = 1
             /\ last.status \in {202, 400, 401, 405}
             /\ last.status = 405 <=> last.method # "POST"
             /\ last.status = 405 => NoEffect(last)

BadMethodTouchesNothing ==
    (AnsweredAtOnce /\ last'.method # "POST")
        => /\ last'.status = 405
           /\ UNCHANGED <<inboxCount, inboxBuckets, posts, delayRecords, Subscribers, Followers, queue>>

\* C19: every completed call of handleInbox has written exactly one status,
\* one of 202, 400, 401 and 405, and none while it is running; 405 is the
\* status exactly of the requests whose method is not POST, and the step that
\* serves such a request changes no counter, membership record or job.
C19_OneStatusPerRequest == []OneStatusWritten /\ [][BadMethodTouchesNothing]_vars

\* reached: a GET answered 405 after a POST had been counted
C19_Witness ==
    /\ last.kind = "inbox"
    /\ last.method = "GET"
    /\ last.status = 405
    /\ last.writes = 1
    /\ inboxCount = 1
    /\ nreq = 2

\* ---- C20: publicly addressed activities
HandshakeReplies(jobs) == {j \in BagToSet(jobs) : j.payload[1] \in {"Accept", "Reject"}}

\* C20: a decoded activity with the public audience in to or cc, whatever
\* its type and whether or not the relay actor is addressed too, never
\* reaches a handshake or announce operation: it changes no membership
\* record, submits no Accept or Reject and fetches nothing; a Follow, Undo,
\* Accept, Reject or Announce so addressed is answered 202 with no effect.
C20_PublicAddressingSkipsHandshake ==
    /\ \A r \in Records :
          (r.kind = "inbox" /\ r.decoded /\ r.toPublic)
              => /\ r.pc \in {"relay", "done"}
                 /\ r.muts = {}
                 /\ r.fetches = 0
                 /\ HandshakeReplies(r.jobs) = {}
    /\ (last.kind = "inbox" /\ last.decoded /\ last.toPublic
            /\ last.act.type \in {"Follow", "Undo", "Accept", "Reject", "Announce"})
          => /\ last.status = 202
             /\ last.body = "none"
             /\ NoEffect(last)

\* reached: a Follow addressed to the public audience and to the relay actor
\* was acknowledged and its sender has no record
C20_Witness ==
    /\ Done("Follow")
    /\ last.toPublic
    /\ last.toRelay
    /\ last.status = 202
    /\ last.act.actor \notin BlockedDomains
    /\ Subscribers[last.act.actor] = "absent"
    /\ Followers[last.act.actor] = "absent"

\* ---- C21: a failed fetch of an announced activity
FetchFailed(rec) ==
    /\ rec.kind = "inbox" /\ rec.decoded /\ rec.act.type = "Announce"
    /\ rec.dialect = "RelayDirected"
    /\ rec.member = "yes"
    /\ rec.act.obj = "uri"
    /\ rec.fetches = 1
    /\ ~rec.fetched

FetchFailureIs400 ==
    /\ \A h \in Handler : ~FetchFailed(handlers[h])
    /\ FetchFailed(last)
          => /\ last.pc = "done"
             /\ last.status = 400
             /\ last.body = "reason"
             /\ last.jobs = EmptyBag
             /\ last.muts = {}

\* the step in which a handler's fetch fails ends the request and leaves
\* the registry and the queue as they were
FetchFailureChangesNothing ==
    \A h \in Handler :
        (handlers[h].pc = "fetch" /\ handlers'[h].pc = "idle")
            => /\ FetchFailed(last')
               /\ UNCHANGED <<Subscribers, Followers, queue>>

\* C21: when the fetch of the original activity of a member's RelayDirected
\* bare-URI Announce fails, the request ends there with 400 and the error
\* text as body; no delivery job is created and no membership record changes.
C21_FetchFailureIs400NoFanout == []FetchFailureIs400 /\ [][FetchFailureChangesNothing]_vars

\* reached: the fetch failed for an Announce of a member of a relay that has
\* another active member to fan out to
C21_Witness ==
    /\ FetchFailed(last)
    /\ last.status = 400
    /\ \E e \in Domain \ {last.act.actor} : isActorSubscribersOrFollowers(e)
    /\ isActorSubscribersOrFollowers(last.act.actor)

\* ---- C22: one administrative Reject per record removed
\* a handler that enqueues its Reject and answers 200 removes a record that
\* is there
RejectRemovesRecord ==
    \A h \in Handler :
        LET d == handlers[h].act.actor
        IN /\ (handlers[h].pc = "adminSub" /\ handlers'[h].pc = "idle")
                 => IsMember(Subscribers, d)
           /\ (handlers[h].pc = "adminFol" /\ handlers'[h].pc = "idle")
                 => IsMember(Followers, d)

\* C22: every administrative unfollow that enqueues a Reject and reports
\* success removes a membership record, so two concurrent administrative
\* unfollows of one domain never both send a Reject and answer 200 for the
\* same record.
C22_OneAdminRejectPerRecord == [][RejectRemovesRecord]_vars

\* ------------------------------------------------------------------ C23
RECURSIVE SumOf(_, _)
SumOf(buckets, keys) ==
    IF keys = {} THEN 0
    ELSE LET k == CHOOSE j \in keys : TRUE
         IN  buckets[k].n + SumOf(buckets, keys \ {k})

\* the sum of the minute buckets that exist now
SumUnexpired == SumOf(inboxBuckets, {k \in DOMAIN inboxBuckets : Live(inboxBuckets, k, clock)})

\* the sum of the minute buckets that are gone
SumExpired == SumOf(inboxBuckets, {k \in DOMAIN inboxBuckets : ~Live(inboxBuckets, k, clock)})

\* C23 as stated: once no request is in flight, the total inbox counter is the
\* number of POST requests handled and is the sum of the unexpired minute
\* buckets.
C23_Original_TotalIsSumOfUnexpired ==
    Quiescent => inboxCount = posts /\ inboxCount = SumUnexpired

\* this step takes a POST to the inbox
PostArrives ==
    /\ nreq' = nreq + 1
    /\ \E h \in Handler :
         /\ handlers[h].pc = "idle"
         /\ \A g \in Handler \ {h} : handlers'[g] = handlers[g]
         /\ LET rec == IF handlers'[h].pc = "idle" THEN last' ELSE handlers'[h]
            IN  rec.kind = "inbox" /\ rec.method = "POST"

\* the step that takes a POST adds one to the bucket of the current minute
\* (which then lives 25 hours) and one to the total, whatever it answers; no
\* other step touches a counter
CountedOnce ==
    IF PostArrives
    THEN LET k == BucketOf(clock)
         IN  /\ posts' = posts + 1
             /\ inboxCount' = inboxCount + 1
             /\ DOMAIN inboxBuckets' = DOMAIN inboxBuckets \cup {k}
             /\ inboxBuckets'[k].n =
                    (IF Live(inboxBuckets, k, clock) THEN inboxBuckets[k].n ELSE 0) + 1
             /\ inboxBuckets'[k].until = clock + ExpireAfter
             /\ \A j \in DOMAIN inboxBuckets \ {k} : inboxBuckets'[j] = inboxBuckets[j]
    ELSE UNCHANGED <<posts, inboxCount, inboxBuckets>>

\* the total is the number of POSTs taken, and is the sum of the minute
\* buckets, those that have expired included
TotalIsAllBuckets ==
    /\ inboxCount = posts
    /\ inboxCount = SumUnexpired + SumExpired
    /\ (\A k \in DOMAIN inboxBuckets : Live(inboxBuckets, k, clock)) => inboxCount = SumUnexpired

\* C23: every POST to the inbox adds exactly one to the bucket of the current
\* minute and one to the total inbox counter, before the activity is decoded
\* and whatever the outcome (202, 400 or 401); the total is the number of POST
\* requests handled, and it is the sum of the minute buckets only as long as
\* none has expired: a bucket expires 25 hours after its last increment, the
\* total never does, so the total is the sum of the unexpired buckets plus the
\* counts of the expired ones.
C23_PostsCountedOnceTotalKeepsExpired ==
    []TotalIsAllBuckets /\ [][CountedOnce]_vars

\* two POSTs counted, a refused one among them, one bucket expired between them
C23_Witness ==
    /\ Quiescent
    /\ posts = 2
    /\ last.status = 400
    /\ SumUnexpired = 1
    /\ SumExpired = 1

\* ------------------------------------------------------------------ C24
\* the calls that have returned nil
Recorded == {r \in Recorder : recorders[r].pc = "done"}

\* every call made has returned, none with an error
AllRecorded == \A r \in Recorder : recorders[r].pc \in {"idle", "done"}

RecordedDelays == {recorders[r].delay : r \in Recorded}

\* once the calls have returned: count is their number, min_delay the
\* smallest and max_delay the largest of their delays
RecordIsExact ==
    AllRecorded /\ Recorded # {}
        => /\ hourRecord.count = Cardinality(Recorded)
           /\ hourRecord.min = {d \in RecordedDelays : \A e \in RecordedDelays : d <= e}
           /\ hourRecord.max = {d \in RecordedDelays : \A e \in RecordedDelays : d >= e}

\* C24: after any set of RecordDelay calls for one instance host within one
\* hour bucket has completed without error, in any interleaving of the
\* commands of concurrent calls, the hour record's count is the number of
\* calls, min_delay the smallest recorded delay and max_delay the largest.
C24_CountMinMaxExactAfterCalls == []RecordIsExact

\* three calls have returned; the first to enter recorded neither the smallest
\* nor the largest delay
C24_Witness ==
    /\ \A r \in Recorder : recorders[r].pc = "done"
    /\ recorders[1].delay = 1
    /\ recorders[2].delay = 2
    /\ recorders[3].delay = 0

\* ------------------------------------------------------------------ C25
\* C25: in every state a reader can observe through getInstanceStats, the
\* states between the commands of a RecordDelay in progress included, an hour
\* record with count > 0 has min_delay <= total_delay / count <= max_delay
\* (compared after multiplying by count).
C25_AverageBetweenMinAndMax ==
    LET stats == getInstanceStats(hourRecord)
    IN  stats.SampleCount > 0
            => /\ stats.MinDelaySeconds * stats.SampleCount <= stats.TotalDelay
               /\ stats.TotalDelay <= stats.MaxDelaySeconds * stats.SampleCount

====
